---- MODULE Spec2Model ----
(***************************************************************************)
(* A model of the concurrent trie of chash-trie: the node graph            *)
(* (src/src/node.rs) and the guarded handle (src/src/lib.rs).              *)
(*                                                                         *)
(* Nodes and value cells live in two growing heaps; a reference is an      *)
(* index into its heap and Null is the null pointer.  Every thread runs a  *)
(* script of public calls.  One step of a thread is one of: a load of the  *)
(* root slot, the compare-exchange or store on the root slot, the          *)
(* acquisition of a node's is_deleted lock, or the code executed under     *)
(* that lock up to and including its release.                              *)
(***************************************************************************)
EXTENDS Integers, Sequences, FiniteSets, TLC

\* ------------------------------------------------------------------ bounds
\* Number of calls the single caller of SpecSeq issues.
MaxOps == 6
\* Number of threads; all of them race in SpecRemove and SpecInsert.
NumRacers == 3
\* Number of get calls of a reader in SpecRW and SpecInsGet.
MaxGets == 3

\* ------------------------------------------------------------- vocabulary
Null == 0
Threads == 1..NumRacers
SegOrder == <<"a", "b">>
Seg == {SegOrder[i] : i \in 1..Len(SegOrder)}

VARIABLES
    root,        \* Trie.root: reference to the root node, or Null
    value,       \* value[n]: Node.value, a reference to a value cell, or Null
    children,    \* children[n]: Node.children, [alloc, ent]; ent[s] = Null: no entry
    is_deleted,  \* is_deleted[n]: the boolean inside Node.is_deleted
    lock,        \* lock[n]: the RwLock of Node.is_deleted, [w: thread or Null, r: threads,
                 \*          p: poisoned by a writer that panicked]
    heap,        \* heap[c]: the V stored in value cell c
    freed,       \* the value cells that have been destroyed
    pc,          \* pc[t]: where thread t stands in its call
    script,      \* script[t]: the calls thread t still has to make
    op,          \* op[t]: the call thread t is making, [kind, key, val]
    idx,         \* idx[t]: number of key segments consumed by the descent
    cur,         \* cur[t]: the node self of the innermost active call
    stk,         \* stk[t]: the remove_at frames waiting for their recursive call
    ret,         \* ret[t]: the Ok((value, is_self_deleted)) being returned
    last,        \* last[t]: what the last finished call of t returned
    held,        \* held[t]: the references t obtained under its current guard
    budget,      \* calls the caller of SpecSeq may still issue
    refmap,      \* reference map of SpecSeq: key -> value or Null
    emptied,     \* SpecSeq: the trie has been filled and emptied again
    wrote        \* wrote[t]: what the current attempt of t's call has written

vars == <<root, value, children, is_deleted, lock, heap, freed, pc, script, op,
          idx, cur, stk, ret, last, held, budget, refmap, emptied, wrote>>

trie_vars == <<root, value, children, is_deleted, lock, heap, freed>>

Nodes == 1..Len(value)

Keys == {<<>>} \cup {<<s>> : s \in Seg} \cup {<<s, u>> : s \in Seg, u \in Seg}

\* The public calls a script is made of.
InsertOp(k, v) == [kind |-> "insert", key |-> k, val |-> v]
RemoveOp(k) == [kind |-> "remove", key |-> k, val |-> 0]
GetOp(k) == [kind |-> "get", key |-> k, val |-> 0]
UnpinOp == [kind |-> "unpin", key |-> <<>>, val |-> 0]
IterOp == [kind |-> "iter", key |-> <<>>, val |-> 0]
EntryOp(k, v) == [kind |-> "entry", key |-> k, val |-> v]
NoOp == [kind |-> "none", key |-> <<>>, val |-> 0]

\* ----------------------------------------------------------------- Node
\* Node::new: null children, null value, is_deleted = false, lock free.
NoChildren == [alloc |-> FALSE, ent |-> [s \in Seg |-> Null]]
NoLock == [w |-> Null, r |-> {}, p |-> FALSE]

\* The heaps after Atomic::new(Node::new()).
NewNodeId == Len(value) + 1

\* ChildMap::is_empty on an allocated map.
is_empty(map) == \A s \in Seg : map.ent[s] = Null

\* RwLock::read succeeds when no writer holds the lock.
CanRead(n) == lock[n].w = Null
\* RwLock::write succeeds when nobody holds the lock.
CanWrite(n) == lock[n].w = Null /\ lock[n].r = {}

LockRead(t, n) == [lock EXCEPT ![n].r = @ \cup {t}]
LockWrite(t, n) == [lock EXCEPT ![n].w = t]
\* A guard that is not dropped at the end of its block.
unlock_never(t, n) == lock

\* The guard of t on n goes out of scope at the end of its block.
Unlock(t, n) ==
    [lock EXCEPT ![n] = [w |-> IF @.w = t THEN Null ELSE @.w, r |-> @.r \ {t}, p |-> @.p]]
\* The write guard of t on n is dropped by a panic: the lock is poisoned.
UnlockPoisoned(t, n) == [lock EXCEPT ![n] = [w |-> Null, r |-> @.r \ {t}, p |-> TRUE]]


\* ------------------------------------------------------------ call frames
\* The calls of thread u that have not returned yet.  A call records in
\* op[t].before how many calls thread 1 had left when it started.
Remaining(u) == Len(script[u]) + (IF pc[u] = "idle" THEN 0 ELSE 1)

NoRet == [value |-> Null, flag |-> FALSE]
NoResult == [op |-> NoOp @@ [before |-> 0], out |-> Null, seen |-> 0, cell |-> Null]

\* The public call of t returns `out` (a value reference, or Null for None);
\* `cell` is the value cell the call allocated, hp the value heap at return.
Return(t, out, cell, hp) ==
    /\ pc' = [pc EXCEPT ![t] = "idle"]
    /\ last' = [last EXCEPT ![t] =
                  [op |-> op[t], out |-> out,
                   seen |-> IF out = Null THEN 0 ELSE hp[out], cell |-> cell]]
    /\ held' = [held EXCEPT ![t] =
                  IF out = Null THEN @ ELSE @ \cup {[ref |-> out, seen |-> hp[out]]}]
    /\ cur' = [cur EXCEPT ![t] = Null]
    /\ idx' = [idx EXCEPT ![t] = 0]
    /\ stk' = [stk EXCEPT ![t] = <<>>]
    /\ ret' = [ret EXCEPT ![t] = NoRet]
    /\ wrote' = [wrote EXCEPT ![t] = {}]

\* The call of t panics: the thread unwinds and makes no further call.
Panic(t) ==
    /\ pc' = [pc EXCEPT ![t] = "panicked"]
    /\ cur' = [cur EXCEPT ![t] = Null]
    /\ idx' = [idx EXCEPT ![t] = 0]
    /\ stk' = [stk EXCEPT ![t] = <<>>]
    /\ ret' = [ret EXCEPT ![t] = NoRet]
    /\ wrote' = [wrote EXCEPT ![t] = {}]
    /\ UNCHANGED <<last, held>>

\* The caller starts its next public call under its current guard.
Start(t) ==
    /\ pc[t] = "idle"
    /\ script[t] # <<>>
    /\ Head(script[t]).kind # "unpin"
    /\ op' = [op EXCEPT ![t] = Head(script[t]) @@ [before |-> Remaining(1)]]
    /\ script' = [script EXCEPT ![t] = Tail(@)]
    /\ pc' = [pc EXCEPT ![t] = "root"]
    /\ UNCHANGED <<trie_vars, idx, stk, cur, ret, last, held, budget, refmap, emptied, wrote>>

\* The caller drops its guard and pins a new one: the references obtained
\* under the old guard are given up.
DropGuard(t) ==
    /\ pc[t] = "idle"
    /\ script[t] # <<>>
    /\ Head(script[t]).kind = "unpin"
    /\ script' = [script EXCEPT ![t] = Tail(@)]
    /\ held' = [held EXCEPT ![t] = {}]
    /\ UNCHANGED <<trie_vars, pc, op, idx, cur, stk, ret, last, budget, refmap, emptied, wrote>>

\* ---------------------------------------------------------- GuardedTrie
\* GuardedTrie::root, as called by get, try_remove and get_or_create_root.
RootLoad(t) ==
    /\ pc[t] = "root"
    /\ IF root = Null
       THEN IF op[t].kind = "insert"
            THEN /\ pc' = [pc EXCEPT ![t] = "root_cas"]
                 /\ UNCHANGED <<last, held, cur, idx, stk, ret, wrote>>
            ELSE Return(t, Null, Null, heap)
       ELSE /\ cur' = [cur EXCEPT ![t] = root]
            /\ pc' = [pc EXCEPT ![t] =
                   CASE op[t].kind = "insert" -> "ins_lock"
                     [] op[t].kind = "get" -> "get_lock"
                     [] op[t].kind = "iter" -> "iter_new"
                     [] op[t].kind = "entry" -> "find_lock"
                     [] OTHER -> IF op[t].key = <<>> THEN "rem_lock_term" ELSE "rem_lock_desc"]
            /\ UNCHANGED <<last, held, idx, stk, ret, wrote>>
    /\ UNCHANGED <<trie_vars, script, op, budget, refmap, emptied>>

\* A plain store in place of the compare-exchange.
root_store_always(current, new) == new

\* The slot a compare_exchange(null, new) leaves behind.
root_compare_exchange(current, new) == IF current = Null THEN new ELSE current

\* GuardedTrie::get_or_create_root, the None arm: allocate a node and
\* compare-exchange it into the null root slot; on failure use the winner.
RootCas(t) ==
    /\ pc[t] = "root_cas"
    /\ LET new == NewNodeId
           now == root_compare_exchange(root, new)
       IN /\ root' = now
          /\ IF now = new
             THEN /\ value' = Append(value, Null)
                  /\ children' = Append(children, NoChildren)
                  /\ is_deleted' = Append(is_deleted, FALSE)
                  /\ lock' = Append(lock, NoLock)
                  /\ wrote' = [wrote EXCEPT ![t] = @ \cup {"root"}]
             ELSE UNCHANGED <<value, children, is_deleted, lock, wrote>>
          /\ cur' = [cur EXCEPT ![t] = now]
    /\ pc' = [pc EXCEPT ![t] = "ins_lock"]
    /\ UNCHANGED <<heap, freed, script, op, idx, stk, ret, last, held, budget, refmap, emptied>>

\* ------------------------------------------------------------ the lock
WriteLabels == {"rem_lock_term", "rem_lock_post"}
ReadLabels == {"ins_lock", "get_lock", "rem_lock_desc", "find_lock", "ent_lock"}

AfterLock(label) ==
    CASE label = "ins_lock" -> "ins_body"
      [] label = "get_lock" -> "get_body"
      [] label = "rem_lock_desc" -> "rem_desc"
      [] label = "find_lock" -> "find_body"
      [] label = "ent_lock" -> "ent_body"
      [] label = "rem_lock_term" -> "rem_term"
      [] OTHER -> "rem_post"

\* self.is_deleted.read().unwrap() / self.is_deleted.write().unwrap() on the
\* node cur[t]: a poisoned lock gives Err(PoisonError), on which unwrap
\* panics and the guard inside the error is dropped.
Acquire(t) ==
    /\ pc[t] \in WriteLabels \cup ReadLabels
    /\ IF pc[t] \in WriteLabels THEN CanWrite(cur[t]) ELSE CanRead(cur[t])
    /\ IF lock[cur[t]].p
       THEN /\ Panic(t)
            /\ UNCHANGED lock
       ELSE /\ lock' = IF pc[t] \in WriteLabels
                       THEN LockWrite(t, cur[t]) ELSE LockRead(t, cur[t])
            /\ pc' = [pc EXCEPT ![t] = AfterLock(pc[t])]
            /\ UNCHANGED <<idx, cur, stk, ret, last, held, wrote>>
    /\ UNCHANGED <<root, value, children, is_deleted, heap, freed, script, op,
                   budget, refmap, emptied>>


\* ------------------------------------------------------- Node: the values
\* Node::set_value: swap a fresh cell holding new_value into the value slot;
\* the result is orig_shared.as_ref(), the reference the slot held before.
set_value(orig_shared, new_cell) == orig_shared

\* A swap that destroys the cell it unlinks at once.
destroys_at_once(orig_shared) == {orig_shared} \ {Null}

\* The cells Node::set_value and Node::take_value destroy: none, the swapped
\* out Shared is only turned into a reference (orig_shared.as_ref()).
swap_destroys(orig_shared) == {}

\* Node::insert, after the liveness check: Ok(previous) or Err(NotFound),
\* which the public insert turns into Some(previous) or None.
InsertBody(t, n) ==
    LET new_cell == Len(heap) + 1
        hp == Append(heap, op[t].val)
    IN /\ heap' = hp
       /\ value' = [value EXCEPT ![n] = new_cell]
       /\ freed' = freed \cup swap_destroys(value[n])
       /\ lock' = Unlock(t, n)
       /\ Return(t, set_value(value[n], new_cell), new_cell, hp)
       /\ UNCHANGED <<children, is_deleted>>

\* Node::insert_at with a next segment, after the liveness check:
\* get_or_create_children, entry(seg).or_insert_with(new node), load.
InsertAtBody(t, n) ==
    LET seg == op[t].key[idx[t] + 1]
        found == children[n].ent[seg]
        child == IF found = Null THEN NewNodeId ELSE found
    IN /\ IF found = Null
          THEN /\ children' = Append([children EXCEPT ![n] =
                                 [alloc |-> TRUE, ent |-> [@.ent EXCEPT ![seg] = child]]],
                                     NoChildren)
               /\ value' = Append(value, Null)
               /\ is_deleted' = Append(is_deleted, FALSE)
               /\ lock' = Append(Unlock(t, n), NoLock)
               /\ wrote' = [wrote EXCEPT ![t] = @ \cup {"child"}]
          ELSE /\ lock' = Unlock(t, n)
               /\ UNCHANGED <<children, value, is_deleted, wrote>>
       /\ cur' = [cur EXCEPT ![t] = child]
       /\ idx' = [idx EXCEPT ![t] = @ + 1]
       /\ pc' = [pc EXCEPT ![t] = "ins_lock"]
       /\ UNCHANGED <<heap, freed, last, held, stk, ret>>

\* An insert that goes on without looking at the flag.
insert_skips_check(n) == FALSE

\* The liveness check of Node::insert_at and Node::insert: if *is_deleted.
insert_checks_deleted(n) == is_deleted[n]

\* Node::insert_at and Node::insert under the read lock of self.  A deleted
\* node gives Err(Retry), on which GuardedTrie::insert starts over at the root.
InsBody(t) ==
    /\ pc[t] = "ins_body"
    /\ LET n == cur[t]
       IN IF insert_checks_deleted(n)
          THEN /\ lock' = Unlock(t, n)
               /\ pc' = [pc EXCEPT ![t] = "root"]
               /\ idx' = [idx EXCEPT ![t] = 0]
               /\ cur' = [cur EXCEPT ![t] = Null]
               /\ wrote' = [wrote EXCEPT ![t] = {}]
               /\ UNCHANGED <<value, children, is_deleted, heap, freed, last, held, stk, ret>>
          ELSE IF idx[t] < Len(op[t].key)
               THEN InsertAtBody(t, n)
               ELSE InsertBody(t, n)
    /\ UNCHANGED <<root, script, op, budget, refmap, emptied>>

\* A lookup that stops one segment early, at the parent of the key's node.
get_at_stops_early(n, key, i) ==
    IF is_deleted[n] THEN [done |-> TRUE, out |-> Null]
    ELSE IF i + 1 >= Len(key) THEN [done |-> TRUE, out |-> value[n]]
    ELSE IF ~children[n].alloc THEN [done |-> TRUE, out |-> Null]
    ELSE IF children[n].ent[key[i + 1]] = Null THEN [done |-> TRUE, out |-> Null]
    ELSE [done |-> FALSE, out |-> children[n].ent[key[i + 1]]]

\* One level of Node::get_at (Node::get when the key is used up) on a node:
\* [done, out] where out is the value, or the child to recurse into.
get_at_step(n, key, i) ==
    IF is_deleted[n] THEN [done |-> TRUE, out |-> Null]
    ELSE IF i = Len(key) THEN [done |-> TRUE, out |-> value[n]]
    ELSE IF ~children[n].alloc THEN [done |-> TRUE, out |-> Null]
    ELSE IF children[n].ent[key[i + 1]] = Null THEN [done |-> TRUE, out |-> Null]
    ELSE [done |-> FALSE, out |-> children[n].ent[key[i + 1]]]

\* Node::get_at and Node::get under the read lock of self.
GetBody(t) ==
    /\ pc[t] = "get_body"
    /\ LET n == cur[t]
           step == get_at_step(n, op[t].key, idx[t])
       IN /\ lock' = Unlock(t, n)
          /\ IF step.done
             THEN Return(t, step.out, Null, heap)
             ELSE /\ cur' = [cur EXCEPT ![t] = step.out]
                  /\ idx' = [idx EXCEPT ![t] = @ + 1]
                  /\ pc' = [pc EXCEPT ![t] = "get_lock"]
                  /\ UNCHANGED <<last, held, stk, ret, wrote>>
    /\ UNCHANGED <<root, value, children, is_deleted, heap, freed, script, op,
                   budget, refmap, emptied>>


\* ------------------------------------------------------- Node: the removal
\* Ok((v, flag)) is handed to the caller: the remove_at frame on top of
\* frames, or GuardedTrie::try_remove when there is none.
Resume(t, frames, v, flag) ==
    IF frames # <<>>
    THEN /\ stk' = [stk EXCEPT ![t] = frames]
         /\ ret' = [ret EXCEPT ![t] = [value |-> v, flag |-> flag]]
         /\ cur' = [cur EXCEPT ![t] = frames[Len(frames)].node]
         /\ pc' = [pc EXCEPT ![t] = "rem_lock_post"]
         /\ wrote' = [wrote EXCEPT ![t] = @ \cup {"value"}]
         /\ UNCHANGED <<last, held, idx>>
    ELSE IF flag
         THEN /\ stk' = [stk EXCEPT ![t] = frames]
              /\ ret' = [ret EXCEPT ![t] = [value |-> v, flag |-> flag]]
              /\ pc' = [pc EXCEPT ![t] = "rem_store"]
              /\ wrote' = [wrote EXCEPT ![t] = @ \cup {"value"}]
              /\ UNCHANGED <<last, held, idx, cur>>
         ELSE Return(t, v, Null, heap)

\* Node::remove_at with a next segment, under the read lock of self: find
\* the child and recurse into it.  A deleted node gives Err(Retry), on which
\* GuardedTrie::remove starts over at the root; a missing map or entry gives
\* Err(NotFound), which ends the call with None.
RemDescend(t) ==
    /\ pc[t] = "rem_desc"
    /\ LET n == cur[t]
           seg == op[t].key[idx[t] + 1]
           child_shared == children[n].ent[seg]
       IN /\ lock' = Unlock(t, n)
          /\ IF is_deleted[n]
             THEN /\ pc' = [pc EXCEPT ![t] = "root"]
                  /\ idx' = [idx EXCEPT ![t] = 0]
                  /\ stk' = [stk EXCEPT ![t] = <<>>]
                  /\ cur' = [cur EXCEPT ![t] = Null]
                  /\ wrote' = [wrote EXCEPT ![t] = {}]
                  /\ UNCHANGED <<last, held, ret>>
             ELSE IF ~children[n].alloc \/ child_shared = Null
                  THEN Return(t, Null, Null, heap)
                  ELSE /\ stk' = [stk EXCEPT ![t] =
                                    Append(@, [node |-> n, seg |-> seg, child |-> child_shared])]
                       /\ cur' = [cur EXCEPT ![t] = child_shared]
                       /\ idx' = [idx EXCEPT ![t] = @ + 1]
                       /\ pc' = [pc EXCEPT ![t] =
                                   IF idx[t] + 1 = Len(op[t].key)
                                   THEN "rem_lock_term" ELSE "rem_lock_desc"]
                       /\ UNCHANGED <<last, held, ret, wrote>>
    /\ UNCHANGED <<root, value, children, is_deleted, heap, freed, script, op,
                   budget, refmap, emptied>>

\* A removal that marks the node deleted whatever its child map holds.
remove_marks_always(map) == TRUE

\* A removal that never finds the node empty.
remove_at_marks_never(map, v) == FALSE

\* A removal that finds the node empty without looking at its value.
remove_at_ignores_value(map, v) == IF map.alloc THEN is_empty(map) ELSE TRUE

\* A take that leaves the value in its slot.
take_value_keeps(orig_shared) == orig_shared

\* Node::take_value: what the value slot holds after swap(null).
take_value(orig_shared) == Null

\* Node::remove, the emptiness test: no child map, or an empty one.
remove_is_self_deleted(map) == IF map.alloc THEN is_empty(map) ELSE TRUE

\* A removal that goes on although the node had no value to take.
take_value_never_none(orig_shared) == FALSE

\* self.take_value(guard).ok_or(Error::NotFound)?: the swap found no value
\* and Node::remove returns Err(NotFound).
take_value_is_none(orig_shared) == orig_shared = Null

\* Node::remove under the write lock of self.
RemTerminal(t) ==
    /\ pc[t] = "rem_term"
    /\ LET n == cur[t]
           taken == value[n]
           is_self_deleted == remove_is_self_deleted(children[n])
       IN /\ lock' = Unlock(t, n)
          /\ IF is_deleted[n] \/ take_value_is_none(taken)
             THEN /\ Return(t, Null, Null, heap)
                  /\ UNCHANGED <<value, is_deleted, freed>>
             ELSE /\ value' = [value EXCEPT ![n] = take_value(taken)]
                  /\ freed' = freed \cup swap_destroys(taken)
                  /\ is_deleted' = [is_deleted EXCEPT ![n] = is_self_deleted]
                  /\ Resume(t, stk[t], taken, is_self_deleted)
    /\ UNCHANGED <<root, children, heap, script, op, budget, refmap, emptied>>

\* The orderings Node::remove_at hands to the compare_exchange inside
\* remove_if: success AcqRel, failure Release.
remove_at_orderings == [success |-> "AcqRel", failure |-> "Release"]

\* A compare_exchange that accepts every pair of orderings.
compare_exchange_accepts_all(ord) == FALSE

\* Atomic::compare_exchange hands its orderings to the std atomic, which
\* panics on a failure ordering of Release or AcqRel before it touches the
\* slot ("there is no such thing as a release failure ordering").
compare_exchange_panics(ord) == ord.failure \in {"Release", "AcqRel"}

\* DashMap::remove_if runs its predicate when the map has an entry for seg;
\* the predicate is the compare_exchange, so the call panics when that does.
remove_if_panics(map, seg) ==
    map.ent[seg] # Null /\ compare_exchange_panics(remove_at_orderings)

\* A conditional removal whose predicate never holds.
remove_if_never(map, seg, child_shared) == map

\* children.remove_if(seg, |_, atomic| atomic.compare_exchange(child_shared,
\* null).is_ok()): the entry goes when it still holds child_shared.
remove_if(map, seg, child_shared) ==
    IF map.ent[seg] = child_shared THEN [map EXCEPT !.ent[seg] = Null] ELSE map

\* Node::remove_at, the emptiness test after the entry removal.
remove_at_is_self_deleted(map, v) ==
    IF map.alloc THEN is_empty(map) /\ v = Null ELSE v = Null

\* Node::remove_at after the recursive call returned Ok, under the write
\* lock of self.
RemPost(t) ==
    /\ pc[t] = "rem_post"
    /\ LET frames == stk[t]
           frame == frames[Len(frames)]
           n == frame.node
           rest == SubSeq(frames, 1, Len(frames) - 1)
           map == IF children[n].alloc /\ ret[t].flag
                  THEN remove_if(children[n], frame.seg, frame.child)
                  ELSE children[n]
           is_self_deleted == remove_at_is_self_deleted(map, value[n])
       IN IF is_deleted[n]
          THEN /\ lock' = Unlock(t, n)
               /\ Resume(t, rest, ret[t].value, FALSE)
               /\ UNCHANGED <<children, is_deleted>>
          ELSE IF children[n].alloc /\ ret[t].flag /\ remove_if_panics(children[n], frame.seg)
               THEN /\ lock' = UnlockPoisoned(t, n)
                    /\ Panic(t)
                    /\ UNCHANGED <<children, is_deleted>>
               ELSE /\ lock' = Unlock(t, n)
                    /\ children' = [children EXCEPT ![n] = map]
                    /\ is_deleted' = [is_deleted EXCEPT ![n] = is_self_deleted]
                    /\ Resume(t, rest, ret[t].value, is_self_deleted)
    /\ UNCHANGED <<root, value, heap, freed, script, op, budget, refmap, emptied>>

\* GuardedTrie::try_remove when the root reported is_child_removed:
\* self.trie.root.store(null).
RemStore(t) ==
    /\ pc[t] = "rem_store"
    /\ root' = Null
    /\ Return(t, ret[t].value, Null, heap)
    /\ UNCHANGED <<value, children, is_deleted, lock, heap, freed, script, op,
                   budget, refmap, emptied>>


\* ------------------------------------------------ reads of a quiet trie
RECURSIVE get_at(_, _, _)
\* Node::get_at run to its end on the current state.
get_at(n, key, i) ==
    LET step == get_at_step(n, key, i)
    IN IF step.done THEN step.out ELSE get_at(step.out, key, i + 1)

\* GuardedTrie::get: self.root()?.get(key, self), when it returns.
get(key) == IF root = Null THEN Null ELSE get_at(root, key, 0)

RECURSIVE get_at_panics(_, _, _)
\* Node::get_at started on the current state comes to a poisoned lock.
get_at_panics(n, key, i) ==
    LET step == get_at_step(n, key, i)
    IN IF lock[n].p THEN TRUE
       ELSE IF step.done THEN FALSE ELSE get_at_panics(step.out, key, i + 1)

\* GuardedTrie::get started on the current state panics instead of returning.
get_panics(key) == root # Null /\ get_at_panics(root, key, 0)

\* The V behind a reference (0 stands for no value).
Deref(ref) == IF ref = Null THEN 0 ELSE heap[ref]

RECURSIVE iter(_)
RECURSIVE iter_children(_, _)
\* An iterator that yields the node's own value and forgets its children.
iter_own_value_only(n) == IF value[n] # Null THEN <<value[n]>> ELSE <<>>

\* Node::iter: the node's own value, then the values below every child entry.
iter(n) ==
    (IF value[n] # Null THEN <<value[n]>> ELSE <<>>) \o iter_children(n, 1)

iter_children(n, i) ==
    IF i > Len(SegOrder) \/ ~children[n].alloc THEN <<>>
    ELSE (IF children[n].ent[SegOrder[i]] # Null
          THEN iter(children[n].ent[SegOrder[i]]) ELSE <<>>) \o iter_children(n, i + 1)

\* GuardedTrie::iter: nothing for a null root.
trie_iter == IF root = Null THEN <<>> ELSE iter(root)

\* ------------------------------------------------------------ the cursor
\* One level of Node::find on a node: [done, out] where out is the node
\* found (self when the key is used up), Null for None, or the child to
\* recurse into.
find_step(n, key, i) ==
    IF is_deleted[n] THEN [done |-> TRUE, out |-> Null]
    ELSE IF i = Len(key) THEN [done |-> TRUE, out |-> n]
    ELSE IF ~children[n].alloc THEN [done |-> TRUE, out |-> Null]
    ELSE IF children[n].ent[key[i + 1]] = Null THEN [done |-> TRUE, out |-> Null]
    ELSE [done |-> FALSE, out |-> children[n].ent[key[i + 1]]]

\* GuardedTrie::entry: Node::find under the read lock of self.  With None
\* the caller has no cursor and the call ends; with Some(node) the caller
\* holds Entry { node } and goes on to call try_insert on it.
FindBody(t) ==
    /\ pc[t] = "find_body"
    /\ LET n == cur[t]
           step == find_step(n, op[t].key, idx[t])
       IN /\ lock' = Unlock(t, n)
          /\ IF step.done /\ step.out = Null
             THEN Return(t, Null, Null, heap)
             ELSE /\ cur' = [cur EXCEPT ![t] = step.out]
                  /\ idx' = [idx EXCEPT ![t] = IF step.done THEN @ ELSE @ + 1]
                  /\ pc' = [pc EXCEPT ![t] = IF step.done THEN "ent_lock" ELSE "find_lock"]
                  /\ UNCHANGED <<last, held, stk, ret, wrote>>
    /\ UNCHANGED <<root, value, children, is_deleted, heap, freed, script, op,
                   budget, refmap, emptied>>

\* Entry::try_insert: Node::insert on the node of the cursor, under its read
\* lock.  Err(Retry) from a deleted node goes to the caller, who has no
\* value reference then.
EntryInsert(t) ==
    /\ pc[t] = "ent_body"
    /\ LET n == cur[t]
       IN IF insert_checks_deleted(n)
          THEN /\ lock' = Unlock(t, n)
               /\ Return(t, Null, Null, heap)
               /\ UNCHANGED <<value, children, is_deleted, heap, freed>>
          ELSE InsertBody(t, n)
    /\ UNCHANGED <<root, script, op, budget, refmap, emptied>>

EntrySteps(t) == FindBody(t) \/ EntryInsert(t)

\* ------------------------------------------- iteration beside writers
\* GuardedTrie::iter loads the root when it is called and walks the trie as
\* its items are pulled.  stk[t] holds one frame for every Node::iter that is
\* under way: [node, map, todo], where map tells whether the node had a child
\* map when its iterator was built and todo are the segments the DashMap
\* iterator has not come to yet.  The items yielded are added to held[t].

\* An iterator that yields the value cell allocated last, whatever the node
\* holds.
iter_yields_newest(n) == IF heap = <<>> THEN Null ELSE Len(heap)

\* iter::once_with(|| self.value(guard)): the value slot as it is when the
\* item is pulled; the flag of the node is not looked at.
iter_value(n) == value[n]

\* Node::iter is called on cur[t]: self.children(guard) is loaded at once,
\* the value and the entries are loaded when they are pulled.
IterNew(t) ==
    /\ pc[t] = "iter_new"
    /\ stk' = [stk EXCEPT ![t] = Append(@, [node |-> cur[t],
                                             map |-> children[cur[t]].alloc,
                                             todo |-> Seg])]
    /\ pc' = [pc EXCEPT ![t] = "iter_value"]
    /\ UNCHANGED <<trie_vars, script, op, idx, cur, ret, last, held, budget,
                   refmap, emptied, wrote>>

\* The first item of the innermost Node::iter is pulled: the node's value,
\* when it has one.
IterValue(t) ==
    /\ pc[t] = "iter_value"
    /\ LET item == iter_value(cur[t])
       IN held' = [held EXCEPT ![t] =
                     IF item = Null THEN @
                     ELSE @ \cup {[ref |-> item, seen |-> heap[item]]}]
    /\ pc' = [pc EXCEPT ![t] = "iter_child"]
    /\ UNCHANGED <<trie_vars, script, op, idx, cur, stk, ret, last, budget,
                   refmap, emptied, wrote>>

\* The DashMap iterator of the innermost frame moves on.  It yields the
\* entries that are in the map when it comes to them, in the order of their
\* hashes; for an entry the closure loads the child and calls iter on it.
\* When the map is used up the frame ends, and with the last frame the
\* iteration.
IterChild(t) ==
    /\ pc[t] = "iter_child"
    /\ LET frames == stk[t]
           frame == frames[Len(frames)]
           rest == SubSeq(frames, 1, Len(frames) - 1)
       IN IF ~frame.map \/ frame.todo = {}
          THEN IF rest = <<>>
               THEN Return(t, Null, Null, heap)
               ELSE /\ stk' = [stk EXCEPT ![t] = rest]
                    /\ cur' = [cur EXCEPT ![t] = rest[Len(rest)].node]
                    /\ UNCHANGED <<pc, last, held, idx, ret, wrote>>
          ELSE \E seg \in frame.todo :
                 LET shared == children[frame.node].ent[seg]
                 IN /\ stk' = [stk EXCEPT ![t][Len(frames)].todo = @ \ {seg}]
                    /\ IF shared = Null
                       THEN UNCHANGED <<pc, cur>>
                       ELSE /\ cur' = [cur EXCEPT ![t] = shared]
                            /\ pc' = [pc EXCEPT ![t] = "iter_new"]
                    /\ UNCHANGED <<last, held, idx, ret, wrote>>
    /\ UNCHANGED <<trie_vars, script, op, budget, refmap, emptied>>

IterSteps(t) == IterNew(t) \/ IterValue(t) \/ IterChild(t)

\* ------------------------------------------------------ specifications
Idle(t) == pc[t] = "idle" /\ script[t] = <<>>
\* The last call of t ended in a panic.
Panicked(t) == pc[t] = "panicked"
\* No call is running.
Quiescent == \A t \in Threads : pc[t] = "idle" \/ Panicked(t)
\* Every thread has made its calls or has panicked.
AllDone == \A t \in Threads : Idle(t) \/ Panicked(t)

\* The state after Trie::new(), with the given scripts.
InitWith(scripts, calls) ==
    /\ root = Null
    /\ value = <<>>
    /\ children = <<>>
    /\ is_deleted = <<>>
    /\ lock = <<>>
    /\ heap = <<>>
    /\ freed = {}
    /\ pc = [t \in Threads |-> "idle"]
    /\ script = scripts
    /\ op = [t \in Threads |-> NoOp @@ [before |-> 0]]
    /\ idx = [t \in Threads |-> 0]
    /\ cur = [t \in Threads |-> Null]
    /\ stk = [t \in Threads |-> <<>>]
    /\ ret = [t \in Threads |-> NoRet]
    /\ last = [t \in Threads |-> NoResult]
    /\ held = [t \in Threads |-> {}]
    /\ budget = calls
    /\ refmap = [k \in Keys |-> 0]
    /\ emptied = FALSE
    /\ wrote = [t \in Threads |-> {}]

\* --- SpecSeq: one caller issues MaxOps calls of its choice, one at a time.
SeqKeys == {<<>>, <<"a">>, <<"a", "b">>, <<"a", "a">>}

\* The reference map after the call o.
RefApply(m, o) ==
    IF o.kind = "insert" THEN [m EXCEPT ![o.key] = o.val]
    ELSE IF o.kind = "remove" THEN [m EXCEPT ![o.key] = 0]
    ELSE m

\* The caller pins a guard and makes its next call; the j-th call that
\* inserts stores the value j.
Choose(t) ==
    /\ t = 1
    /\ Idle(t)
    /\ budget > 0
    /\ \E k \in SeqKeys :
         \E o \in {InsertOp(k, MaxOps - budget + 1), RemoveOp(k)} :
            /\ script' = [script EXCEPT ![t] = <<o>>]
            /\ refmap' = RefApply(refmap, o)
    /\ budget' = budget - 1
    /\ held' = [held EXCEPT ![t] = {}]
    /\ emptied' = (emptied \/ (heap # <<>> /\ \A k \in Keys : refmap[k] = 0))
    /\ UNCHANGED <<trie_vars, pc, op, idx, cur, stk, ret, last, wrote>>

InitSeq == InitWith([t \in Threads |-> <<>>], MaxOps)

\* The steps of a call of insert, and those only remove and get take.
InsertSteps(t) == Start(t) \/ RootLoad(t) \/ RootCas(t) \/ Acquire(t) \/ InsBody(t)
RemoveSteps(t) == RemDescend(t) \/ RemTerminal(t) \/ RemPost(t) \/ RemStore(t)

NextSeq == \E t \in Threads : Choose(t) \/ InsertSteps(t) \/ RemoveSteps(t)

SpecSeq == InitSeq /\ [][NextSeq]_vars

\* --- SpecRemove: key K is inserted, then NumRacers threads remove it.
Racers == Threads
RaceKeys == {<<>>, <<"a">>, <<"a", "b">>}

InitRemove ==
    \E k \in RaceKeys :
        InitWith([t \in Threads |->
                    IF t = 1 THEN <<InsertOp(k, 1), RemoveOp(k)>> ELSE <<RemoveOp(k)>>], 0)

NextInsRem == \E t \in Threads : InsertSteps(t) \/ RemoveSteps(t)

SpecRemove == InitRemove /\ [][NextInsRem]_vars

\* --- SpecInsert: NumRacers threads insert different values under key K.
InitInsert ==
    \E k \in RaceKeys :
        InitWith([t \in Threads |-> <<InsertOp(k, t)>>], 0)

NextInsert == \E t \in Threads : InsertSteps(t)

SpecInsert == InitInsert /\ [][NextInsert]_vars


\* --- SpecRW: a writer inserts (K, 1) and then (K, 2) while thread 2 calls
\* get(K) MaxGets times under one guard and the other threads call it once.
Writer == 1
Readers == Threads \ {Writer}
RWKeys == {<<"a">>, <<"a", "b">>}
Gets(t, k) == IF t = 2 THEN [i \in 1..MaxGets |-> GetOp(k)] ELSE <<GetOp(k)>>

InitRW ==
    \E k \in RWKeys :
        InitWith([t \in Threads |->
                    IF t = Writer THEN <<InsertOp(k, 1), InsertOp(k, 2)>> ELSE Gets(t, k)], 0)

NextInsGet == \E t \in Threads : InsertSteps(t) \/ GetBody(t)

SpecRW == InitRW /\ [][NextInsGet]_vars

\* --- SpecInsGet: one thread inserts (K, 1) into the empty trie while the
\* others call get(K): thread 2 MaxGets times, the others once.
InitInsGet ==
    \E k \in RWKeys :
        InitWith([t \in Threads |->
                    IF t = Writer THEN <<InsertOp(k, 1)>> ELSE Gets(t, k)], 0)

SpecInsGet == InitInsGet /\ [][NextInsGet]_vars

\* --- SpecGuard: a writer inserts (K, 1) and then overwrites or removes K;
\* thread 2 reads K, keeps the reference, drops its guard and reads again;
\* the other threads read K once.
GuardKeys == RWKeys \cup {<<>>}

InitGuard ==
    \E k \in GuardKeys : \E second \in {InsertOp(k, 2), RemoveOp(k)} :
        InitWith([t \in Threads |->
                    IF t = Writer THEN <<InsertOp(k, 1), second>>
                    ELSE IF t = 2 THEN <<GetOp(k), UnpinOp, GetOp(k)>>
                    ELSE <<GetOp(k)>>], 0)

NextGuard ==
    \E t \in Threads : InsertSteps(t) \/ RemoveSteps(t) \/ GetBody(t) \/ DropGuard(t)

SpecGuard == InitGuard /\ [][NextGuard]_vars

\* --- SpecLost: thread 1 inserts (K, 1) and then reads K, while threads 2
\* and 3 each insert and remove another key on or around the path of K.
LostKeys == {<<>>, <<"a">>, <<"a", "a">>, <<"a", "b">>}

InitLost ==
    \E k \in RWKeys :
        \E others \in [{2, 3} -> LostKeys \ {k}] :
            InitWith([t \in Threads |->
                        IF t = 1 THEN <<InsertOp(k, 1), GetOp(k)>>
                        ELSE IF t \in {2, 3}
                             THEN <<InsertOp(others[t], t), RemoveOp(others[t])>>
                             ELSE <<>>], 0)

NextAll == \E t \in Threads : InsertSteps(t) \/ RemoveSteps(t) \/ GetBody(t)

SpecLost == InitLost /\ [][NextAll]_vars

\* --- SpecIter: thread 1 inserts a key and removes it, thread 2 inserts a
\* key and removes a key, and thread 3 iterates over the trie meanwhile.
IterKeys == {<<>>, <<"a">>, <<"a", "b">>}

InitIter ==
    \E k1 \in IterKeys : \E k2 \in IterKeys : \E r2 \in IterKeys :
        InitWith([t \in Threads |->
                    IF t = 1 THEN <<InsertOp(k1, 1), RemoveOp(k1)>>
                    ELSE IF t = 2 THEN <<InsertOp(k2, 2), RemoveOp(r2)>>
                    ELSE IF t = 3 THEN <<IterOp>>
                    ELSE <<>>], 0)

NextIter == \E t \in Threads : InsertSteps(t) \/ RemoveSteps(t) \/ IterSteps(t)

SpecIter == InitIter /\ [][NextIter]_vars

\* --- SpecCursor: thread 1 inserts a key and removes it, thread 2 inserts a
\* key, and thread 3 takes a cursor to a key and inserts through it.
CursorKeys == {<<>>, <<"a">>, <<"a", "b">>}

InitCursor ==
    \E k1 \in CursorKeys : \E k2 \in CursorKeys : \E k3 \in CursorKeys :
        InitWith([t \in Threads |->
                    IF t = 1 THEN <<InsertOp(k1, 1), RemoveOp(k1)>>
                    ELSE IF t = 2 THEN <<InsertOp(k2, 2)>>
                    ELSE IF t = 3 THEN <<EntryOp(k3, 3)>>
                    ELSE <<>>], 0)

NextCursor == \E t \in Threads : InsertSteps(t) \/ RemoveSteps(t) \/ EntrySteps(t)

SpecCursor == InitCursor /\ [][NextCursor]_vars

\* --- SpecRace: threads 1 and 2 each insert a key of their choice and then
\* remove a key of their choice, while thread 3 inserts a key.
PruneKeys == {<<>>, <<"a">>}

InitRace ==
    \E ins \in [{1, 2, 3} -> PruneKeys] : \E rem \in [{1, 2} -> PruneKeys] :
        InitWith([t \in Threads |->
                    IF t \in {1, 2} THEN <<InsertOp(ins[t], t), RemoveOp(rem[t])>>
                    ELSE IF t = 3 THEN <<InsertOp(ins[t], t)>>
                    ELSE <<>>], 0)

SpecRace == InitRace /\ [][NextInsRem]_vars

\* --- SpecLive: races on one key K under fair scheduling: threads 1 and 2
\* each insert K and then remove it, thread 3 inserts K.  A thread that is
\* inside a call keeps taking steps, and the lock is fair: a thread that
\* waits for a lock which is free again and again gets it, and a reader does
\* not overtake a writer that waits for the same lock.
InitLive ==
    \E k \in PruneKeys :
        InitWith([t \in Threads |->
                    IF t \in {1, 2} THEN <<InsertOp(k, t), RemoveOp(k)>>
                    ELSE IF t = 3 THEN <<InsertOp(k, t)>>
                    ELSE <<>>], 0)

\* A writer waits for the lock of node n.
WriterWaits(n) == \E u \in Threads : pc[u] \in WriteLabels /\ cur[u] = n

\* The acquisition of a fair RwLock.
AcquireFair(t) ==
    /\ pc[t] \in ReadLabels => ~WriterWaits(cur[t])
    /\ Acquire(t)

\* The steps of t inside a call, from the load of the root to the return.
InCall(t) ==
    \/ RootLoad(t) \/ RootCas(t) \/ AcquireFair(t) \/ InsBody(t)
    \/ RemDescend(t) \/ RemTerminal(t) \/ RemPost(t) \/ RemStore(t)

NextLive == \E t \in Threads : Start(t) \/ InCall(t)

Fairness == \A t \in Threads : WF_vars(InCall(t)) /\ SF_vars(AcquireFair(t))

SpecLive == InitLive /\ [][NextLive]_vars /\ Fairness

\* SpecLive with the lock of the other specifications, which lets readers
\* in while a writer waits.
SpecLiveUnfairLock ==
    /\ InitLive
    /\ [][NextInsRem]_vars
    /\ \A t \in Threads : WF_vars(InsertSteps(t) \/ RemoveSteps(t)) /\ SF_vars(Acquire(t))

\* ================================================================ claims
\* No call has ended in a panic.
NoPanic == \A t \in Threads : ~Panicked(t)

\* C1: run by a single thread, after any sequence of public insert and
\* remove calls, get(k) is for every key k the value of the last insert(k, v)
\* not followed by remove(k), and absent otherwise.
C1_GetMatchesReferenceMap ==
    /\ ~Panicked(1)
    /\ Idle(1) => \A k \in Keys : ~get_panics(k) /\ Deref(get(k)) = refmap[k]

\* What holds instead: the trie agrees with the reference map for as long as
\* no remove has had to take a child entry out of its parent.
GetMatchesReferenceMapUntilPanic ==
    Idle(1) => \A k \in Keys : ~get_panics(k) /\ Deref(get(k)) = refmap[k]

\* C2: a successful insert returns a reference to the value it has just
\* stored, whether or not the node held a value before the call.
C2_InsertReturnsStoredValue ==
    \A t \in Threads :
        (pc[t] = "idle" /\ last[t].op.kind = "insert" /\ last[t].cell # Null)
            => last[t].out = last[t].cell

\* What the code does instead (see set_value): the insert returns the
\* reference the slot held before, absent when it held none.
InsertReturnsPreviousValue ==
    \A t \in Threads :
        (pc[t] = "idle" /\ last[t].op.kind = "insert" /\ last[t].cell # Null)
            => /\ last[t].out # last[t].cell
               /\ last[t].out # Null => last[t].out < last[t].cell

\* The trie holds no key although values have been stored in it.
EmptiedNow == heap # <<>> /\ \A k \in Keys : refmap[k] = 0

ProperPrefixes(k) == {SubSeq(k, 1, n) : n \in 0..(Len(k) - 1)}

\* C10: after inserting keys and removing every one of them, iter() yields
\* nothing, get is absent for every key and prefix and the root slot is null;
\* a subsequent insert(k, v) succeeds, get(k) = v, and the proper prefixes of
\* k that were not inserted again stay absent.
C10_EmptyAgainThenInsert ==
    /\ ~Panicked(1)
    /\ Idle(1) =>
        /\ EmptiedNow =>
              /\ root = Null
              /\ trie_iter = <<>>
              /\ \A k \in Keys : get(k) = Null
        /\ (emptied /\ last[1].op.kind = "insert") =>
              /\ last[1].out # Null
              /\ Deref(get(last[1].op.key)) = last[1].op.val
              /\ \A p \in ProperPrefixes(last[1].op.key) : Deref(get(p)) = refmap[p]

\* C10 without the result of the insert call, for the sequences of calls
\* that all return: the state is as claimed.
EmptyAgainThenInsertStored ==
    Idle(1) =>
        /\ EmptiedNow =>
              /\ root = Null
              /\ trie_iter = <<>>
              /\ \A k \in Keys : get(k) = Null
        /\ (emptied /\ last[1].op.kind = "insert") =>
              /\ Deref(get(last[1].op.key)) = last[1].op.val
              /\ \A p \in ProperPrefixes(last[1].op.key) : Deref(get(p)) = refmap[p]


\* The call of t is a remove that started after the insert of thread 1 had
\* returned.
StartedAfterInsert(t) == op[t].kind = "remove" /\ op[t].before <= 1

\* C4: when K holds V and the racers call remove(K) with no insert running,
\* exactly one call returns V, the others return absent, and after all calls
\* the trie is empty: the root slot is null and get(K) is absent.
C4_OneRemoveWins ==
    (AllDone /\ \A t \in Racers : StartedAfterInsert(t)) =>
        /\ NoPanic
        /\ Cardinality({t \in Racers : last[t].out # Null}) = 1
        /\ \A t \in Racers : last[t].out # Null => last[t].seen = 1
        /\ root = Null
        /\ \A t \in Racers : get(op[t].key) = Null

\* What holds instead: the claim for the calls that return, which are all
\* of them when K is the empty key; no value is handed out twice.
OneRemoveWinsUnlessPanic ==
    /\ (AllDone /\ NoPanic /\ \A t \in Racers : StartedAfterInsert(t)) =>
          /\ Cardinality({t \in Racers : last[t].out # Null}) = 1
          /\ \A t \in Racers : last[t].out # Null => last[t].seen = 1
          /\ root = Null
          /\ \A t \in Racers : get(op[t].key) = Null
    /\ Cardinality({t \in Racers : pc[t] = "idle" /\ last[t].op.kind = "remove"
                                     /\ last[t].out # Null}) <= 1
    /\ \A t \in Racers : Panicked(t) => op[t].key # <<>>

\* C5: when several threads insert different values under one key K into an
\* empty trie, every insert call succeeds, and after all have returned
\* get(K) is one of the inserted values and iter() yields exactly that value.
C5_RacingInsertsConverge ==
    AllDone =>
        \A t \in Racers :
            /\ last[t].out # Null
            /\ Deref(get(last[t].op.key)) \in Racers
            /\ trie_iter = <<get(last[t].op.key)>>

\* C5 without the results of the insert calls: the state is as claimed.
RacingInsertsStored ==
    AllDone =>
        \A t \in Racers :
            /\ Deref(get(last[t].op.key)) \in Racers
            /\ trie_iter = <<get(last[t].op.key)>>


\* The insert of thread 1, the first call of its script, has returned.
InsertReturned == Remaining(1) <= 1 /\ last[1].op.kind \in {"insert", "get"}

\* C3: once insert(K, V) has returned, and no other insert or remove on K
\* overlaps or follows it, every later get(K) returns V, whatever the other
\* threads insert and remove on other keys, pruning included.
C3_NoLostInsert ==
    /\ InsertReturned =>
          /\ ~Panicked(1)
          /\ ~get_panics(last[1].op.key)
          /\ Deref(get(last[1].op.key)) = 1
    /\ (pc[1] = "idle" /\ last[1].op.kind = "get") => last[1].seen = 1

\* What holds instead: the inserted value is in place, and a get that
\* returns finds it, until a remove of another thread has panicked.
NoLostInsertUntilPanic ==
    /\ (InsertReturned /\ NoPanic) => Deref(get(last[1].op.key)) = 1
    /\ (pc[1] = "idle" /\ last[1].op.kind = "get") => last[1].seen = 1

\* C6: with one writer that inserts (K, V1) and later (K, V2), the results
\* of the successive get(K) of a reader never go backwards in the order
\* absent, V1, V2, and a get that starts after an insert has returned sees
\* the value of that insert or a later one.
C6_ReaderNeverGoesBack ==
    [][\A t \in Readers :
          /\ last'[t].seen >= last[t].seen
          /\ last'[t].op.kind = "get" => last'[t].seen >= 2 - last'[t].op.before]_vars

\* Thread 2 has read V1 and then V2 under its guard; its last get started
\* while the second insert was running.
C6_Witness ==
    /\ Idle(2)
    /\ last[2].seen = 2
    /\ last[2].op.before = 1
    /\ {h.seen : h \in held[2]} = {1, 2}

\* C7: with one thread inserting (K, V) into the empty trie, no get(K)
\* returns anything but absent or V, and every get that starts after the
\* insert has returned yields V.
C7_GetSeesAbsentOrV ==
    \A t \in Readers :
        last[t].op.kind = "get" =>
            /\ last[t].seen \in {0, 1}
            /\ last[t].op.before = 0 => last[t].seen = 1

\* Thread 3 read absent, thread 2 read V in a get that began after the
\* insert had returned.
C7_Witness ==
    /\ last[2].op.kind = "get"
    /\ last[2].op.before = 0
    /\ last[2].seen = 1
    /\ last[3].op.kind = "get"
    /\ last[3].seen = 0

\* C8: a reference obtained under a guard designates the same value, which
\* is neither destroyed nor changed, until the guard is dropped, even if the
\* key is overwritten or removed and its node pruned meanwhile; a get under a
\* new guard taken after the overwrite returns the new value.
C8_ReferencesStayValid ==
    /\ \A t \in Threads : \A h \in held[t] :
          h.ref \notin freed /\ heap[h.ref] = h.seen
    /\ \A t \in Readers :
          (pc[t] = "idle" /\ last[t].op.kind = "get" /\ last[t].op.before = 0) =>
              last[t].seen = (IF last[Writer].op.kind = "insert" THEN 2 ELSE 0)

\* Thread 2 still holds its reference to V1 under its first guard after the
\* writer has removed K and pruned the trie down to a null root.
C8_Witness ==
    /\ Idle(Writer)
    /\ last[Writer].op.kind = "remove"
    /\ last[Writer].seen = 1
    /\ root = Null
    /\ script[2] = <<UnpinOp, GetOp(last[Writer].op.key)>>
    /\ \E h \in held[2] : h.seen = 1 /\ h.ref = last[Writer].out

RECURSIVE HasValue(_)
\* The node holds a value, or a child entry leads to a node that does.
HasValue(n) ==
    \/ value[n] # Null
    \/ children[n].alloc /\ \E s \in Seg :
          children[n].ent[s] # Null /\ HasValue(children[n].ent[s])

RECURSIVE Below(_)
\* The nodes linked below n, n included.
Below(n) ==
    {n} \cup UNION {Below(children[n].ent[s]) :
                      s \in {u \in Seg : children[n].alloc /\ children[n].ent[u] # Null}}

Reachable == IF root = Null THEN {} ELSE Below(root)

\* C9: in every quiescent state reached by concurrent inserts and removes,
\* every node reachable from the root is not marked deleted and holds a value
\* or leads to a node that holds one, and the root slot is null when no key
\* is stored.
C9_PrunedWhenQuiescent ==
    Quiescent =>
        /\ \A n \in Reachable : ~is_deleted[n] /\ HasValue(n)
        /\ (\A k \in Keys : get(k) = Null) => root = Null

\* What holds instead: the quiescent states in which no call has panicked
\* are pruned; a panic leaves the marked node linked below its parent.
PrunedWhenQuiescentUnlessPanic ==
    (Quiescent /\ NoPanic) =>
        /\ \A n \in Reachable : ~is_deleted[n] /\ HasValue(n)
        /\ (\A k \in Keys : get(k) = Null) => root = Null

RECURSIVE PathFrom(_, _, _)
\* The nodes the child entries lead through from n along key, n included,
\* whatever their flags; it ends where an entry is missing.
PathFrom(n, key, i) ==
    IF i = Len(key) \/ ~children[n].alloc \/ children[n].ent[key[i + 1]] = Null
    THEN <<n>>
    ELSE <<n>> \o PathFrom(children[n].ent[key[i + 1]], key, i + 1)

\* The nodes linked from the root slot along key.
Path(key) == IF root = Null THEN <<>> ELSE PathFrom(root, key, 0)

\* Thread t takes the step, inside a call of remove.
RemoveStep(t) == pc'[t] # pc[t] /\ pc[t] # "idle" /\ op[t].kind = "remove"

\* C11: remove(k) leaves every other key untouched: no step of the call
\* changes what get(k2) returns for a key k2 other than k (a prefix of k, an
\* extension of k, or a key that shares a prefix with k), and the nodes on the
\* path to a stored k2 stay linked and not marked deleted.
C11_RemoveLeavesOtherKeys ==
    [][\A t \in Threads : RemoveStep(t) =>
          /\ ~Panicked(t)'
          /\ \A k2 \in Keys \ {op[t].key} :
                /\ get(k2)' = get(k2)
                /\ get_panics(k2)' = get_panics(k2)
                /\ get(k2) # Null =>
                      /\ Path(k2)' = Path(k2)
                      /\ \A j \in 1..Len(Path(k2)) : ~is_deleted'[Path(k2)[j]]]_vars

\* What holds instead: the steps of remove(k) other than the panic leave the
\* values, the paths and the flags of the other keys alone, and the panic
\* leaves the values and the links alone; it makes get panic for the keys
\* behind the poisoned lock.
RemoveLeavesOtherValues ==
    [][\A t \in Threads : RemoveStep(t) =>
          \A k2 \in Keys \ {op[t].key} :
              /\ get(k2)' = get(k2)
              /\ ~Panicked(t)' => get_panics(k2)' = get_panics(k2)
              /\ get(k2) # Null =>
                    /\ Path(k2)' = Path(k2)
                    /\ \A j \in 1..Len(Path(k2)) : ~is_deleted'[Path(k2)[j]]]_vars

\* The keys the trie holds a value for: those a get that returns finds one
\* for.
StoredKeys == {k \in Keys : get(k) # Null}

\* C12: in a quiescent trie iter() yields exactly the stored values: as many
\* items as there are keys with a value, the reference get(k) exactly once
\* for each of them, and nothing for removed keys or bare prefix nodes.
C12_IterYieldsStoredValues ==
    Quiescent =>
        /\ Len(trie_iter) = Cardinality(StoredKeys)
        /\ \A k \in StoredKeys :
              Cardinality({i \in 1..Len(trie_iter) : trie_iter[i] = get(k)}) = 1
        /\ \A i \in 1..Len(trie_iter) : \E k \in StoredKeys : trie_iter[i] = get(k)

\* [] and [a, b] are stored; the last call removed the value of [a], whose
\* node stays as a prefix node without a value.
C12_Witness ==
    /\ Idle(1)
    /\ StoredKeys = {<<>>, <<"a", "b">>}
    /\ Len(trie_iter) = 2
    /\ last[1].op.kind = "remove"
    /\ last[1].op.key = <<"a">>
    /\ last[1].seen # 0

\* [] and [a, b] are stored beside the node of [a, a], which is marked and
\* still linked because the remove that emptied it panicked.
IterSkipsMarkedNode ==
    /\ Panicked(1)
    /\ StoredKeys = {<<>>, <<"a", "b">>}
    /\ Len(trie_iter) = 2
    /\ \E n \in Reachable : is_deleted[n]

\* Thread t takes the step.
Stepped(t) == pc'[t] # pc[t]

\* The attempt of t (one try_insert or try_remove) ends with Err(Retry): the
\* public call goes back to the root without returning.
Retried(t) == pc[t] \notin {"idle", "root"} /\ pc'[t] = "root"

\* The descent of t stands, under the read lock, on a node marked deleted.
MetDeleted(t) == pc[t] \in {"ins_body", "rem_desc"} /\ is_deleted[cur[t]]

\* The step of t writes nothing to the trie and returns nothing.
WritesNothing(t) ==
    /\ UNCHANGED <<root, value, children, is_deleted, heap, freed>>
    /\ UNCHANGED <<op, script, last>>

\* The public call of t returns a value reference or absent.
ReturnsValueOrAbsent(t) ==
    pc'[t] = "idle" => (last'[t].out = Null \/ last'[t].out \in 1..Len(heap'))

\* C13 as stated: try_insert and try_remove give Retry exactly when the
\* descent met a node marked deleted (try_remove: on a non-terminal step) and
\* have then modified nothing; the public insert and remove never return
\* Retry, they start over at the root and return a value or absent.
C13_RetryModifiesNothing ==
    [][\A t \in Threads : Stepped(t) =>
          /\ Retried(t) <=> MetDeleted(t)
          /\ Retried(t) => (wrote[t] = {} /\ WritesNothing(t))
          /\ ReturnsValueOrAbsent(t)]_vars

\* C13, amended: as above, but an attempt of insert that gives Retry may
\* have created the root node, a child map or empty child nodes before it
\* met the deleted node.  It has stored no value, the step that gives Retry
\* writes nothing, and the creation steps change the result of no get and
\* of iter.  An attempt of remove that gives Retry has written nothing.
C13_RetryStoresNothing ==
    [][\A t \in Threads : Stepped(t) =>
          /\ Retried(t) <=> MetDeleted(t)
          /\ Retried(t) =>
                /\ WritesNothing(t)
                /\ wrote[t] \subseteq {"root", "child"}
                /\ op[t].kind = "remove" => wrote[t] = {}
          /\ (wrote'[t] # {} /\ wrote'[t] \subseteq {"root", "child"}) =>
                /\ \A k \in Keys : get(k)' = get(k)
                /\ trie_iter' = trie_iter
          /\ ReturnsValueOrAbsent(t)]_vars

\* Thread 3 created the root for its insert, the other threads stored and
\* removed a key and pruned that root, and thread 3 now stands on the
\* deleted node it created, about to get Retry.
C13_Witness ==
    /\ MetDeleted(3)
    /\ op[3].kind = "insert"
    /\ wrote[3] = {"root"}
    /\ root = Null

\* A remover stands on a deleted node in its descent, about to get Retry.
C13_RemoveWitness ==
    \E t \in Threads : MetDeleted(t) /\ op[t].kind = "remove"

\* What the operations have handed to the reclamation domain.  The swaps of
\* the value slot, the entry removal and the root store are followed by no
\* defer_destroy: of the value cells only what swap_destroys gives, of the
\* nodes none.
retired_values == freed
retired_nodes == {}

\* The value cells no node holds any more, and the nodes no longer linked.
UnlinkedValues == {c \in 1..Len(heap) : \A n \in Nodes : value[n] # c}
UnlinkedNodes == Nodes \ Reachable

\* C14: every object an operation unlinks (a value replaced by insert or
\* taken by remove, the node of a removed entry, the root taken out of the
\* root slot) is handed to the reclamation domain by that operation, so that
\* after the calls have returned everything unlinked has been retired.
C14_UnlinkedIsRetired ==
    Quiescent =>
        /\ UnlinkedValues \subseteq retired_values
        /\ UnlinkedNodes \subseteq retired_nodes

\* What the code does instead: nothing is ever retired.
NothingIsRetired == retired_values = {} /\ retired_nodes = {}

\* The node holds no value and no child entry.
Bare(n) == value[n] = Null /\ \A s \in Seg : children[n].ent[s] = Null

\* C15: the root unlink never clobbers a root created anew: when try_remove
\* stores null into the root slot, the slot holds the root node this call
\* started from, and that node is marked deleted and holds no value and no
\* child entry; no step puts null over a root that is not marked deleted.
C15_RootStoreHitsOwnRoot ==
    [][/\ \A t \in Threads :
            (pc[t] = "rem_store" /\ pc'[t] # "rem_store") =>
                (root = cur[t] /\ is_deleted[cur[t]] /\ Bare(cur[t]))
       /\ (root # Null /\ root' # root) => (root' = Null /\ is_deleted[root] /\ Bare(root))]_vars

\* A remover is about to store null over a root that was itself created
\* after an earlier root had been pruned, while an insert that has loaded
\* this root waits for its lock.
C15_Witness ==
    \E t \in Threads : \E u \in Threads :
        /\ pc[t] = "rem_store"
        /\ root = cur[t]
        /\ root > 1
        /\ pc[u] = "ins_lock"
        /\ cur[u] = root

Unlinking(t, n) ==
    \/ pc[t] = "rem_store" /\ cur[t] = n
    \/ /\ pc[t] \in {"rem_lock_post", "rem_post"}
       /\ stk[t] # <<>>
       /\ stk[t][Len(stk[t])].child = n
       /\ ret[t].flag

ReaderMeetsAbandonedNode ==
    \E t \in Readers :
        /\ pc[t] = "get_body"
        /\ is_deleted[cur[t]]
        /\ cur[t] \in Reachable
        /\ Panicked(Writer)
        /\ \A w \in Threads : ~Unlinking(w, cur[t])

\* C17: the deleted flag is terminal: once is_deleted[n] is true it stays
\* true; a marked node is never given a value or a child again and, once
\* unlinked, is never linked again, so that a key inserted again lives in
\* nodes allocated anew, which start with the flag false.
C17_DeletedIsTerminal ==
    [][/\ \A n \in Nodes : is_deleted[n] =>
             /\ is_deleted'[n]
             /\ value'[n] = value[n]
             /\ children'[n] = children[n]
             /\ n \notin Reachable => n \notin Reachable'
       /\ \A n \in 1..Len(is_deleted') : n \notin Nodes => ~is_deleted'[n]]_vars

\* The key [] was stored, removed together with the root, and stored again:
\* it is now found in a second root, while the first root is still marked
\* deleted and is not linked.
C17_Witness ==
    /\ AllDone
    /\ NoPanic
    /\ is_deleted[1]
    /\ root > 1
    /\ ~is_deleted[root]
    /\ get(<<>>) # Null
    /\ 1 \notin Reachable

\* Thread t can take a step.
CanStep(t) ==
    \/ pc[t] = "idle" /\ script[t] # <<>>
    \/ pc[t] \in WriteLabels /\ CanWrite(cur[t])
    \/ pc[t] \in ReadLabels /\ CanRead(cur[t])
    \/ pc[t] \notin {"idle", "panicked"} \cup WriteLabels \cup ReadLabels

\* A node marked deleted is linked below the root.
DeletedLinked == \E n \in Reachable : is_deleted[n]

\* C18: under fair scheduling every public insert and remove call
\* eventually returns, however the other calls race with it; no reachable
\* state is a deadlock, and no deleted node stays linked for ever.
C18_CallsReturn ==
    /\ \A t \in Threads : (pc[t] # "idle") ~> (pc[t] = "idle")
    /\ [](AllDone \/ \E t \in Threads : CanStep(t))
    /\ DeletedLinked ~> ~DeletedLinked

\* What holds instead: under the same fairness every call returns or panics,
\* no state is a deadlock, and a call on the empty key always returns.
CallsReturnOrPanic ==
    /\ \A t \in Threads : (pc[t] # "idle") ~> (pc[t] = "idle" \/ Panicked(t))
    /\ [](AllDone \/ \E t \in Threads : CanStep(t))
    /\ [](\A t \in Threads : Panicked(t) => op[t].key # <<>>)

\* Thread t holds the lock of node n, for reading or for writing.
Holds(t, n) == lock[n].w = t \/ t \in lock[n].r

\* The places of a call at which the guard of the current node is alive.
ReadBodies == {"ins_body", "get_body", "rem_desc", "find_body", "ent_body"}
WriteBodies == {"rem_term", "rem_post"}

\* C19: every thread holds the is_deleted lock of at most one node; the lock
\* is held only inside the block that looks at the current node and is given
\* up before the call goes into the child; remove_at takes the write lock
\* only when the recursive call into the child has returned its result.
C19_LockHygiene ==
    /\ \A t \in Threads : Cardinality({n \in Nodes : Holds(t, n)}) <= 1
    /\ \A t \in Threads : \A n \in Nodes :
          /\ t \in lock[n].r => (n = cur[t] /\ pc[t] \in ReadBodies)
          /\ lock[n].w = t => (n = cur[t] /\ pc[t] \in WriteBodies)
    /\ \A t \in Threads : pc[t] \in {"rem_lock_post", "rem_post"} =>
          /\ stk[t] # <<>>
          /\ cur[t] = stk[t][Len(stk[t])].node
          /\ ret[t].value # Null
          /\ \A n \in Nodes : Holds(t, n) => n # stk[t][Len(stk[t])].child

\* A remove holds the write lock of the parent after its recursive call has
\* returned, while a get holds the read lock of the child.
C19_Witness ==
    \E t \in Threads : \E u \in Threads :
        /\ pc[t] = "rem_post"
        /\ lock[cur[t]].w = t
        /\ pc[u] = "get_body"
        /\ u \in lock[cur[u]].r
        /\ cur[u] = stk[t][Len(stk[t])].child

\* Node n is the target of the root slot or of an entry of a child map.
Linked(n) ==
    \/ root = n
    \/ \E p \in Nodes : \E sg \in Seg : children[p].ent[sg] = n

\* The step gives the remove call of t is_self_deleted = true for n.
BecomesPruner(t, n) == Unlinking(t, n)' /\ ~Unlinking(t, n)

\* The remove call of t, under the write lock, finds the flag of its node set.
FindsFlagSet(t) ==
    /\ pc[t] \in {"rem_term", "rem_post"}
    /\ pc'[t] # pc[t]
    /\ is_deleted[cur[t]]

\* A remove that finds the flag set marks and unlinks nothing and reports no
\* pruning: the terminal remove ends the call with NotFound, remove_at hands
\* (value, false) upwards.
LeavesPruningToOther(t) ==
    /\ is_deleted' = is_deleted
    /\ children' = children
    /\ root' = root
    /\ \A n \in Nodes : ~Unlinking(t, n)'
    /\ pc[t] = "rem_term" => (pc'[t] = "idle" /\ last'[t].out = Null)
    /\ pc[t] = "rem_post" =>
          \/ pc'[t] = "idle" /\ last'[t].out = ret[t].value
          \/ pc'[t] = "rem_lock_post" /\ ret'[t] = [value |-> ret[t].value, flag |-> FALSE]

\* The part of C20 that does not depend on the unlinking being carried out:
\* a call gets is_self_deleted = true for a node only in the step that sets
\* the node's flag, so at most one call ever gets it; a remover that finds the
\* flag set leaves the pruning alone; and a link to a node is taken away only
\* by the call that marked the node.
SinglePrunerPerNode ==
    [][/\ \A t \in Threads : \A n \in Nodes :
             BecomesPruner(t, n) =>
                 /\ ~is_deleted[n] /\ is_deleted'[n]
                 /\ \A u \in Threads \ {t} : ~Unlinking(u, n) /\ ~Unlinking(u, n)'
       /\ \A n \in Nodes : (is_deleted'[n] /\ ~is_deleted[n]) =>
             \E t \in Threads : BecomesPruner(t, n)
       /\ \A t \in Threads : FindsFlagSet(t) => LeavesPruningToOther(t)
       /\ \A n \in Nodes : (Linked(n) /\ ~Linked(n)') =>
             \E t \in Threads : Unlinking(t, n) /\ ~Unlinking(t, n)']_vars

\* C20: for every node at most one remove call gets is_self_deleted = true
\* (a remover that finds the flag set returns (value, false) from remove_at
\* or NotFound from the terminal remove), and the node's entry in its
\* parent's child map, or the root slot, is unlinked by exactly that one call,
\* exactly once: the call that marked the node ends its unlinking step with
\* the link gone.
C20_SinglePruner ==
    [][/\ \A t \in Threads : \A n \in Nodes :
             BecomesPruner(t, n) =>
                 /\ ~is_deleted[n] /\ is_deleted'[n]
                 /\ \A u \in Threads \ {t} : ~Unlinking(u, n) /\ ~Unlinking(u, n)'
       /\ \A t \in Threads : FindsFlagSet(t) => LeavesPruningToOther(t)
       /\ \A n \in Nodes : (Linked(n) /\ ~Linked(n)') =>
             \E t \in Threads : Unlinking(t, n) /\ ~Unlinking(t, n)'
       /\ \A t \in Threads : \A n \in Nodes :
             (Unlinking(t, n) /\ ~Unlinking(t, n)') => (Linked(n) /\ ~Linked(n)')]_vars

\* Two removes of the same key: one has marked the node and was about to
\* unlink it when it panicked, the other found the flag set and returned
\* absent.
SecondRemoverFindsFlag ==
    \E t \in Threads : \E u \in Threads \ {t} :
        /\ Panicked(t) /\ op[t].kind = "remove" /\ op[t].key = <<"a">>
        /\ pc[u] = "idle" /\ last[u].op.kind = "remove" /\ last[u].op.key = <<"a">>
        /\ last[u].out = Null
        /\ \E n \in Nodes : is_deleted[n] /\ Linked(n)

\* The places of a call of iter.
IterLabels == {"iter_new", "iter_value", "iter_child"}

\* C21: an iteration that runs beside removes and their pruning never follows
\* a null child pointer: every child it goes into and every node it has an
\* iterator for is a node, live or marked deleted; and every item it yields
\* is stored under some key at the moment it is yielded.
C21_IterToleratesPruning ==
    [][\A t \in Threads :
         /\ pc'[t] \in IterLabels =>
               /\ cur'[t] \in Nodes'
               /\ \A i \in 1..Len(stk'[t]) : stk'[t][i].node \in Nodes'
         /\ op[t].kind = "iter" =>
               \A h \in held'[t] : h \in held[t] \/ \E k \in Keys : get(k) = h.ref]_vars

\* The iteration has gone into a node that a remove has marked deleted in the
\* meantime and that is still linked, and it has yielded a value.
C21_Witness ==
    \E t \in Threads :
        /\ pc[t] \in {"iter_value", "iter_child"}
        /\ is_deleted[cur[t]]
        /\ cur[t] # stk[t][1].node
        /\ held[t] # {}

\* The places at which an insert has taken the read lock of its node.
InsertBodies == {"ins_body", "ent_body"}

\* Thread t, inside an insert, changes the value or the child map of node n.
InsertWrites(t, n) ==
    /\ pc[t] \in InsertBodies
    /\ cur[t] = n
    /\ pc'[t] # pc[t]
    /\ value'[n] # value[n] \/ children'[n] # children[n]

\* C22: a node marked deleted is empty for ever: it has no value and no
\* child entry, before and after every step; an insert (insert_at, insert,
\* or try_insert of a cursor) writes to a node only when the node is unmarked
\* before and after the write; and no node is marked while an insert stands
\* behind its liveness check on that node.
C22_DeletedStaysEmpty ==
    [][/\ \A n \in Nodes : is_deleted[n] => (Bare(n) /\ is_deleted'[n] /\ Bare(n)')
       /\ \A n \in Nodes' : is_deleted'[n] => Bare(n)'
       /\ \A t \in Threads : \A n \in Nodes :
             InsertWrites(t, n) => (~is_deleted[n] /\ ~is_deleted'[n])
       /\ \A n \in Nodes : (is_deleted'[n] /\ ~is_deleted[n]) =>
             \A t \in Threads : ~(pc[t] \in InsertBodies /\ cur[t] = n)]_vars

\* The cursor was taken on the node of [a] while it held a value; the node
\* has been marked deleted since, and try_insert has the read lock of the
\* marked node.
C22_Witness ==
    \E t \in Threads :
        /\ op[t].kind = "entry"
        /\ op[t].key # <<>>
        /\ pc[t] = "ent_body"
        /\ is_deleted[cur[t]]
        /\ cur[t] \in Reachable

\* Key k leads from the root slot through the child entries to node n.
LeadsTo(k, n) == Len(Path(k)) = Len(k) + 1 /\ Path(k)[Len(k) + 1] = n

\* The part of C23 that does not depend on get returning: a link is taken
\* away only from a marked node, every unmarked node is reachable from the
\* root, and the value of an unmarked node is what the lookup of its key
\* comes to when no lock on the way is poisoned.
UnlinkOnlyAfterDeletionUnlessPoisoned ==
    [][/\ \A n \in Nodes : (Linked(n) /\ ~Linked(n)') => is_deleted[n]
       /\ \A n \in Nodes' : ~is_deleted'[n] => n \in Reachable'
       /\ \A n \in Nodes' : (~is_deleted'[n] /\ value'[n] # Null) =>
             \E k \in Keys : LeadsTo(k, n)' /\ get(k)' = value'[n]]_vars

\* C23: a child entry is removed, and the root slot set to null, only when
\* the node it points to is marked deleted; so every node that is not marked
\* deleted is reachable from the root, and the value stored in such a node is
\* what get returns for its key.
C23_UnlinkOnlyAfterDeletion ==
    [][/\ \A n \in Nodes : (Linked(n) /\ ~Linked(n)') => is_deleted[n]
       /\ \A n \in Nodes' : ~is_deleted'[n] => n \in Reachable'
       /\ \A n \in Nodes' : (~is_deleted'[n] /\ value'[n] # Null) =>
             \E k \in Keys :
                 LeadsTo(k, n)' /\ ~get_panics(k)' /\ get(k)' = value'[n]]_vars

\* The root holds a value and its lock is poisoned by the remove of [a],
\* which panicked while unlinking the marked node of a.
ValueBehindPoisonedLock ==
    /\ root # Null
    /\ value[root] # Null
    /\ ~is_deleted[root]
    /\ lock[root].p
    /\ \E t \in Threads : Panicked(t)

\* The root slot has been set to null after its node was marked, and a new
\* root has been installed since.
RootUnlinkedAfterMark ==
    /\ root # Null
    /\ \E n \in Nodes : n # root /\ is_deleted[n] /\ ~Linked(n)

\* The remove call of t has taken a value: it takes it in this step, or it
\* carries it upwards.
TakesValue(t) == pc[t] = "rem_term" /\ ~is_deleted[cur[t]] /\ value[cur[t]] # Null
CarriesValue(t) == pc[t] \in {"rem_lock_post", "rem_post", "rem_store"} /\ ret[t].value # Null

\* The remove call of t returns None in this step.
RemoveReturnsAbsent(t) == RemoveStep(t) /\ pc'[t] = "idle" /\ last'[t].out = Null

\* C24: a remove that finds nothing changes nothing.  A step of a remove
\* call changes the root slot, a value, a child map or a flag only when the
\* call has taken a value; a call that has taken a value keeps it until it
\* returns it (or panics), so that a call that returns absent has cleared no
\* value, marked no node, removed no entry and left the root slot alone,
\* whether it stopped at a missing child map, a missing entry, or a node
\* without a value.
C24_AbsentRemoveChangesNothing ==
    [][\A t \in Threads :
         /\ (RemoveStep(t) /\ ~TakesValue(t) /\ ~CarriesValue(t)) =>
               UNCHANGED <<root, value, children, is_deleted, heap, freed>>
         /\ RemoveReturnsAbsent(t) =>
               /\ ~TakesValue(t) /\ ~CarriesValue(t)
               /\ \A k \in Keys : get(k)' = get(k)
         /\ (RemoveStep(t) /\ TakesValue(t)) =>
               \/ CarriesValue(t)' /\ ret'[t].value = value[cur[t]]
               \/ pc'[t] = "idle" /\ last'[t].out = value[cur[t]]
         /\ (RemoveStep(t) /\ CarriesValue(t)) =>
               \/ CarriesValue(t)' /\ ret'[t].value = ret[t].value
               \/ pc'[t] = "idle" /\ last'[t].out = ret[t].value
               \/ Panicked(t)']_vars

\* remove([]) has returned absent at a root that has no value of its own and
\* is there as the prefix of [a], which is stored.
C24_Witness ==
    \E t \in Threads :
        /\ pc[t] = "idle"
        /\ last[t].op.kind = "remove"
        /\ last[t].op.key = <<>>
        /\ last[t].out = Null
        /\ root # Null
        /\ value[root] = Null
        /\ ~is_deleted[root]
        /\ get(<<"a">>) # Null

\* remove([a]) has returned absent at a root without a child map, which
\* holds the value of the empty key.
AbsentAtMissingChildMap ==
    \E t \in Threads :
        /\ pc[t] = "idle"
        /\ last[t].op.kind = "remove"
        /\ last[t].op.key = <<"a">>
        /\ last[t].out = Null
        /\ root # Null
        /\ ~children[root].alloc
        /\ get(<<>>) # Null

====
